---- MODULE Spec2Model ----
(***************************************************************************)
(* A model of daily_report_weekday.py: the DingTalkBot webhook client      *)
(* (constructor, get_sign and the seven send operations), the script's     *)
(* delivery sequence, and the ROI projection computation.                  *)
(*                                                                         *)
(* Strings are sequences of text fragments; concatenation is \o.           *)
(* Python values whose type the code inspects carry their type.            *)
(***************************************************************************)
EXTENDS Integers, Sequences, FiniteSets, TLC

VARIABLES
    clock,          \* time.time() * 1000, rounded: the wall clock in ms
    webhook_url,    \* self.webhook_url of the current DingTalkBot
    lastInit,       \* the last __init__ call: its arguments and clock reads
    signLog,        \* every get_sign call so far: <<secret, timestamp, sign>>
    lastCall,       \* the last send call: arguments, requests issued, outcome
    pc,             \* where the script is
    content,        \* the summary text the script sends
    uploaded_image_df,      \* uploaded_image_df.link
    uploaded_image_trend,   \* uploaded_image_trend.link
    posts,          \* the requests the script has posted to the webhooks, in order
    sendResults,    \* what each send call of the script returned
    today,          \* today.date(), as a day of the year
    data,           \* the DataFrame get_df() returned: row k+1 has index label k
    step,           \* where the report computation is
    three_one_coefficient,
    seven_three_coefficient,
    total_cost,
    total_install,
    total_1roi,
    total_7roi,
    predicted_7roi,
    i,              \* the weekly table loop's index
    index_three_one_coefficient,    \* as the last pass of the loop left them
    index_seven_three_coefficient,
    my_table

botVars == <<clock, webhook_url, lastInit, signLog, lastCall>>
runVars == <<pc, content, uploaded_image_df, uploaded_image_trend, posts, sendResults>>
engVars == <<today, data, step, three_one_coefficient, seven_three_coefficient,
             total_cost, total_install, total_1roi, total_7roi, predicted_7roi,
             i, index_three_one_coefficient, index_seven_three_coefficient, my_table>>
vars == <<botVars, runVars, engVars>>

-----------------------------------------------------------------------------
(* Bounds of the model *)

MaxMobiles == 2     \* longest mobiles list tried
MaxClock == 2       \* the clock runs over 0..MaxClock
MaxItems == 2       \* longest btns / links_msg list tried
TodaySpan == 13     \* today runs over FirstToday .. FirstToday + TodaySpan

-----------------------------------------------------------------------------
(* Python values *)

PyNone == [type |-> "NoneType", val |-> <<>>]
PyList(s) == [type |-> "list", val |-> s]
PyTuple(s) == [type |-> "tuple", val |-> s]
PyStr(s) == [type |-> "str", val |-> s]
PyInt(s) == [type |-> "int", val |-> s]     \* s: the decimal digits

\* bool(v): None, 0 and empty containers are falsy
Truthy(v) ==
    CASE v.type = "NoneType" -> FALSE
      [] v.type = "int" -> v.val # <<"0">>
      [] OTHER -> v.val # <<>>

\* isinstance(v, list)
IsList(v) == v.type = "list"

\* dict.get(key): None when the key is missing
DictGet(d, key) == IF key \in DOMAIN d THEN d[key] ELSE PyNone

RECURSIVE Digits(_)
\* str(n) for n >= 0
Digits(n) ==
    LET d == <<"0", "1", "2", "3", "4", "5", "6", "7", "8", "9">>
    IN  IF n < 10 THEN <<d[n + 1]>> ELSE Digits(n \div 10) \o <<d[(n % 10) + 1]>>

RECURSIVE SeqsUpTo(_, _)
\* all sequences over S of length <= n
SeqsUpTo(S, n) ==
    IF n = 0 THEN {<<>>}
    ELSE LET shorter == SeqsUpTo(S, n - 1)
         IN  shorter \cup {Append(s, x) : s \in shorter, x \in S}

-----------------------------------------------------------------------------
(* Inputs *)

Numbers == {<<"13800000000">>, <<"13900000000">>}
Titles == {<<"T">>}
Bodies == {<<"A">>, <<>>}
BaseUrls == {<<"https://oapi.dingtalk.com/robot/send?access_token=k">>}
Secrets == {PyNone, PyStr(<<>>), PyStr(<<"SEC1">>), PyStr(<<"SEC2">>)}

MobilesLists == {PyList(s) : s \in SeqsUpTo(Numbers, MaxMobiles)}
MobilesArgs ==
    {PyNone} \cup MobilesLists
    \cup {PyStr(<<>>), PyStr(<<"13800000000">>),
          PyTuple(<<>>), PyTuple(<<<<"13800000000">>>>),
          PyInt(<<"0">>), PyInt(<<"5">>)}

\* What the server answers: a body that is not JSON, JSON that is not an
\* object, or a JSON object with or without an errcode member.
Errcodes == {"absent", "int:0", "int:310000", "float:0.0", "bool:false",
             "bool:true", "str:0", "null"}
Responses ==
    {[body |-> "not_json", errcode |-> "absent"],
     [body |-> "json_array", errcode |-> "absent"]}
    \cup {[body |-> "json_object", errcode |-> e] : e \in Errcodes}

-----------------------------------------------------------------------------
(* DingTalkBot.get_sign and __init__ *)

\* hmac.new(key, msg, sha256).digest(), base64.b64encode and
\* urllib.parse.quote_plus as symbolic terms: distinct inputs give distinct
\* outputs, and the output is determined by the input alone.
HmacSha256(key, msg) == <<"hmac(">> \o key \o <<",">> \o msg \o <<")">>
B64Encode(bytes) == <<"b64(">> \o bytes \o <<")">>
QuotePlus(s) == <<"quote(">> \o s \o <<")">>

\* a variant that signs the time of the call instead of the timestamp given
get_sign_stale(secret, timestamp) ==
    LET string_to_sign == Digits(clock) \o <<"\n">> \o secret
        hmac_code == HmacSha256(secret, string_to_sign)
    IN  QuotePlus(B64Encode(hmac_code))

get_sign(secret, timestamp) ==
    LET string_to_sign == timestamp \o <<"\n">> \o secret
        hmac_code == HmacSha256(secret, string_to_sign)
    IN  QuotePlus(B64Encode(hmac_code))

\* The clock values __init__ reads: one, and only with a truthy secret.
InitTimeReads(secret, now) == IF Truthy(secret) THEN <<now>> ELSE <<>>

\* self.webhook_url as __init__ leaves it
InitWebhookUrl(secret, url, now) ==
    IF Truthy(secret)
    THEN LET timestamp == Digits(now)
             sign == get_sign(secret.val, timestamp)
         IN  url \o <<"&timestamp=">> \o timestamp \o <<"&sign=">> \o sign
    ELSE url

InitSignCalls(secret, now) ==
    IF Truthy(secret)
    THEN {<<secret.val, Digits(now), get_sign(secret.val, Digits(now))>>}
    ELSE {}

headers == [Content_Type |-> "application/json", Charset |-> "UTF-8"]

NoCall == [op |-> "none"]

\* DingTalkBot(secret, webhook_url)
Construct(secret, url) ==
    /\ webhook_url' = InitWebhookUrl(secret, url, clock)
    /\ lastInit' = [secret |-> secret, webhook_url |-> url,
                    timeReads |-> InitTimeReads(secret, clock)]
    /\ signLog' = signLog \cup InitSignCalls(secret, clock)
    /\ UNCHANGED <<clock, lastCall>>

\* bot.get_sign(secret, timestamp) called directly
GetSign(secret, timestamp) ==
    /\ signLog' = signLog \cup {<<secret, timestamp, get_sign(secret, timestamp)>>}
    /\ UNCHANGED <<clock, webhook_url, lastInit, lastCall>>

\* time passes
Tick ==
    /\ clock < MaxClock
    /\ clock' = clock + 1
    /\ UNCHANGED <<webhook_url, lastInit, signLog, lastCall>>

-----------------------------------------------------------------------------
(* The request and the result handling every send operation ends with *)

\* request(url=self.webhook_url, json=payload, headers=self.headers, method="POST")
Post(url, payload) ==
    [url |-> url, json |-> payload, headers |-> headers, method |-> "POST"]

\* Python's v == 0 for a JSON value: 0, 0.0 and false compare equal to 0
PyEqZero(e) == e \in {"int:0", "float:0.0", "bool:false"}

\* a variant that takes a missing errcode for success: .get("errcode", 0)
ResponseResult_missing_is_ok(response) ==
    CASE response.body = "not_json" -> "JSONDecodeError"
      [] response.body = "json_array" -> "AttributeError"
      [] OTHER -> IF PyEqZero(response.errcode) \/ response.errcode = "absent"
                  THEN "True" ELSE "False"

\* response.json().get("errcode") == 0: response.json() raises on a body that
\* is not JSON, .get raises on JSON that is not an object, a missing errcode
\* is None.
ResponseResult(response) ==
    CASE response.body = "not_json" -> "JSONDecodeError"
      [] response.body = "json_array" -> "AttributeError"
      [] OTHER -> IF PyEqZero(response.errcode) THEN "True" ELSE "False"

\* what a send call that got as far as the request did
Sent(url, payload, response) ==
    [requests |-> <<Post(url, payload)>>, outcome |-> ResponseResult(response)]

\* raise TypeError before any request
Raised == [requests |-> <<>>, outcome |-> "TypeError"]

\* a variant that appends the tags last to first
RECURSIVE AppendMentions_reversed(_, _, _)
AppendMentions_reversed(body, mobiles, tag) ==
    IF mobiles = <<>> THEN body
    ELSE AppendMentions_reversed(body, Tail(mobiles), tag) \o tag \o Head(mobiles)

RECURSIVE AppendMentions(_, _, _)
\* for mobile in mobiles: body += f"{tag}{mobile}"
AppendMentions(body, mobiles, tag) ==
    IF mobiles = <<>> THEN body
    ELSE AppendMentions(body \o tag \o Head(mobiles), Tail(mobiles), tag)

-----------------------------------------------------------------------------
(* The seven send operations *)

send_text(url, title, text_content, mobiles, is_at_all, response) ==
    IF Truthy(mobiles)
    THEN IF IsList(mobiles)
         THEN Sent(url,
                   [msgtype |-> "text", title |-> title,
                    text |-> [content |-> AppendMentions(text_content, mobiles.val, <<"@">>)],
                    at |-> [atMobiles |-> mobiles, isAtAll |-> FALSE]],
                   response)
         ELSE Raised
    ELSE Sent(url,
              [msgtype |-> "text", title |-> title,
               text |-> [content |-> text_content],
               at |-> [atMobiles |-> PyStr(<<>>), isAtAll |-> is_at_all]],
              response)

send_link(url, title, text, message_url, pic_url, response) ==
    Sent(url,
         [msgtype |-> "link",
          link |-> [title |-> title, text |-> text, picUrl |-> pic_url,
                    messageUrl |-> message_url]],
         response)

send_markdown(url, title, text, mobiles, is_at_all, response) ==
    IF Truthy(mobiles)
    THEN IF IsList(mobiles)
         THEN Sent(url,
                   [msgtype |-> "markdown",
                    markdown |-> [title |-> title,
                                  text |-> AppendMentions(text, mobiles.val, <<" ", "@">>)],
                    at |-> [atMobiles |-> mobiles, isAtAll |-> FALSE]],
                   response)
         ELSE Raised
    ELSE Sent(url,
              [msgtype |-> "markdown",
               markdown |-> [title |-> title, text |-> text],
               at |-> [atMobiles |-> PyStr(<<>>), isAtAll |-> is_at_all]],
              response)

send_action_card_single(url, title, text, single_title, single_url, btn_orientation, response) ==
    Sent(url,
         [msgtype |-> "actionCard",
          actionCard |-> [title |-> title, text |-> text,
                          singleTitle |-> single_title, singleURL |-> single_url,
                          btnOrientation |-> btn_orientation]],
         response)

\* for btn in btns: append {"title": btn.get("title"), "actionURL": btn.get("action_url")}
SplitButtons(btns) ==
    [k \in DOMAIN btns |->
        [title |-> DictGet(btns[k], "title"),
         actionURL |-> DictGet(btns[k], "action_url")]]

send_action_card_split(url, title, text, btns, btn_orientation, response) ==
    Sent(url,
         [msgtype |-> "actionCard",
          actionCard |-> [title |-> title, text |-> text,
                          btns |-> SplitButtons(btns),
                          btnOrientation |-> btn_orientation]],
         response)

\* a variant that reads the keys message_url and pic_url
FeedLinks_snake_keys(links_msg) ==
    [k \in DOMAIN links_msg |->
        [title |-> DictGet(links_msg[k], "title"),
         messageURL |-> DictGet(links_msg[k], "message_url"),
         picURL |-> DictGet(links_msg[k], "pic_url")]]

\* for link in links_msg: append {"title": link.get("title"),
\*     "messageURL": link.get("messageURL"), "picURL": link.get("picURL")}
FeedLinks(links_msg) ==
    [k \in DOMAIN links_msg |->
        [title |-> DictGet(links_msg[k], "title"),
         messageURL |-> DictGet(links_msg[k], "messageURL"),
         picURL |-> DictGet(links_msg[k], "picURL")]]

send_feed_card(url, links_msg, response) ==
    Sent(url,
         [msgtype |-> "feedCard", feedCard |-> [links |-> FeedLinks(links_msg)]],
         response)

send_image(url, image_base64, mobiles, is_at_all, response) ==
    IF Truthy(mobiles)
    THEN IF IsList(mobiles)
         THEN Sent(url,
                   [msgtype |-> "image",
                    image |-> [base64 |-> AppendMentions(image_base64, mobiles.val, <<" ", "@">>)],
                    at |-> [atMobiles |-> mobiles, isAtAll |-> FALSE]],
                   response)
         ELSE Raised
    ELSE Sent(url,
              [msgtype |-> "image",
               image |-> [base64 |-> image_base64],
               at |-> [atMobiles |-> PyStr(<<>>), isAtAll |-> is_at_all]],
              response)

-----------------------------------------------------------------------------
(* Numbers as numpy computes them: a ratio of integers, nan or inf *)

RECURSIVE GCD(_, _)
GCD(a, b) == IF b = 0 THEN a ELSE GCD(b, a % b)

NaN == [kind |-> "nan", num |-> 0, den |-> 0]
Inf == [kind |-> "inf", num |-> 1, den |-> 0]
Unset == [kind |-> "unset", num |-> 0, den |-> 0]

\* the number n / d in lowest terms, d > 0
Ratio(n, d) ==
    LET g == GCD(n, d)
    IN  [kind |-> "num", num |-> n \div g, den |-> d \div g]

Zero == Ratio(0, 1)

\* a / b on numpy scalars, a >= 0 and b >= 0: dividing by zero warns and gives
\* nan for 0 / 0 and inf otherwise
Divide(a, b) ==
    IF b # 0 THEN Ratio(a, b)
    ELSE IF a = 0 THEN NaN ELSE Inf

\* x * y on floats that are not negative
Multiply(x, y) ==
    CASE x.kind = "nan" \/ y.kind = "nan" -> NaN
      [] x.kind = "inf" -> IF y.kind = "num" /\ y.num = 0 THEN NaN ELSE Inf
      [] y.kind = "inf" -> IF x.num = 0 THEN NaN ELSE Inf
      [] OTHER -> Ratio(x.num * y.num, x.den * y.den)

\* n / d rounded to an integer, ties to even
RoundHalfEven(n, d) ==
    LET q == n \div d
        r == n % d
    IN  IF 2 * r < d THEN q
        ELSE IF 2 * r > d THEN q + 1
        ELSE IF q % 2 = 0 THEN q ELSE q + 1

\* round(x, 4)
Round4(x) ==
    IF x.kind = "num" THEN Ratio(RoundHalfEven(x.num * 10000, x.den), 10000) ELSE x

\* f"{x:.2%}": hundredths of a percent, or "nan%" / "inf%"
FormatPercent(x) ==
    IF x.kind = "num"
    THEN [text |-> "%", hundredths |-> RoundHalfEven(x.num * 10000, x.den)]
    ELSE [text |-> x.kind \o "%", hundredths |-> 0]

\* "{:,}".format(n): the digits of n, grouped
FormatComma(n) == [text |-> ",", digits |-> Digits(n)]

\* no report is being computed
NoReport ==
    /\ today = 0
    /\ data = <<>>
    /\ step = "idle"
    /\ three_one_coefficient = Unset
    /\ seven_three_coefficient = Unset
    /\ total_cost = 0
    /\ total_install = 0
    /\ total_1roi = Unset
    /\ total_7roi = Unset
    /\ predicted_7roi = Unset
    /\ i = 0
    /\ index_three_one_coefficient = Unset
    /\ index_seven_three_coefficient = Unset
    /\ my_table = <<>>

\* the client used on its own: no script is running
NoLink == <<>>
NoScript ==
    /\ pc = "idle"
    /\ content = <<>>
    /\ uploaded_image_df = NoLink
    /\ uploaded_image_trend = NoLink
    /\ posts = <<>>
    /\ sendResults = <<>>

-----------------------------------------------------------------------------
(* A client in use: any send operation, any arguments, any answer *)

Urls == {PyNone, PyStr(<<"https://example.com/a">>)}
Orientations == {0, 1}

\* items keyed as the spec's table names them, and as the docstrings do
Button(title, u) == [title |-> PyStr(title), action_url |-> PyStr(u)]
ButtonDoc(title, u) == [title |-> PyStr(title), actionURL |-> PyStr(u)]
FeedItem(title, u, pic) ==
    [title |-> PyStr(title), message_url |-> PyStr(u), pic_url |-> PyStr(pic)]
FeedItemDoc(title, u, pic) ==
    [title |-> PyStr(title), messageURL |-> PyStr(u), picURL |-> PyStr(pic)]

ItemTitles == {<<"t1">>, <<"t2">>}
Buttons ==
    {Button(t, <<"u1">>) : t \in ItemTitles} \cup {ButtonDoc(t, <<"u1">>) : t \in ItemTitles}
FeedItems ==
    {FeedItem(t, <<"u1">>, <<"p1">>) : t \in ItemTitles}
    \cup {FeedItemDoc(t, <<"u1">>, <<"p1">>) : t \in ItemTitles}

Call(op, args, response, result) ==
    [op |-> op, args |-> args, response |-> response,
     requests |-> result.requests, outcome |-> result.outcome]

SendText ==
    \E title \in Titles, text_content \in Bodies, mobiles \in MobilesArgs,
       is_at_all \in BOOLEAN, response \in Responses :
        /\ lastCall = NoCall
        /\ lastCall' = Call("send_text",
                            [title |-> title, body |-> text_content, mobiles |-> mobiles,
                             is_at_all |-> is_at_all],
                            response,
                            send_text(webhook_url, title, text_content, mobiles, is_at_all,
                                      response))
        /\ UNCHANGED <<clock, webhook_url, lastInit, signLog, runVars, engVars>>

SendLink ==
    \E title \in Titles, text \in Bodies, pic_url \in Urls, response \in Responses :
        /\ lastCall = NoCall
        /\ lastCall' = Call("send_link",
                            [title |-> title, text |-> text, pic_url |-> pic_url],
                            response,
                            send_link(webhook_url, title, text, <<"https://m">>, pic_url,
                                      response))
        /\ UNCHANGED <<clock, webhook_url, lastInit, signLog, runVars, engVars>>

SendMarkdown ==
    \E title \in Titles, text \in Bodies, mobiles \in MobilesArgs,
       is_at_all \in BOOLEAN, response \in Responses :
        /\ lastCall = NoCall
        /\ lastCall' = Call("send_markdown",
                            [title |-> title, body |-> text, mobiles |-> mobiles,
                             is_at_all |-> is_at_all],
                            response,
                            send_markdown(webhook_url, title, text, mobiles, is_at_all,
                                          response))
        /\ UNCHANGED <<clock, webhook_url, lastInit, signLog, runVars, engVars>>

SendActionCardSingle ==
    \E title \in Titles, text \in Bodies, o \in Orientations, response \in Responses :
        /\ lastCall = NoCall
        /\ lastCall' = Call("send_action_card_single",
                            [title |-> title, text |-> text, btn_orientation |-> o],
                            response,
                            send_action_card_single(webhook_url, title, text, <<"go">>,
                                                    <<"https://s">>, o, response))
        /\ UNCHANGED <<clock, webhook_url, lastInit, signLog, runVars, engVars>>

SendActionCardSplit ==
    \E title \in Titles, btns \in SeqsUpTo(Buttons, MaxItems), o \in Orientations,
       response \in Responses :
        /\ lastCall = NoCall
        /\ lastCall' = Call("send_action_card_split",
                            [title |-> title, items |-> btns, btn_orientation |-> o],
                            response,
                            send_action_card_split(webhook_url, title, <<"A">>, btns, o,
                                                   response))
        /\ UNCHANGED <<clock, webhook_url, lastInit, signLog, runVars, engVars>>

SendFeedCard ==
    \E links_msg \in SeqsUpTo(FeedItems, MaxItems), response \in Responses :
        /\ lastCall = NoCall
        /\ lastCall' = Call("send_feed_card", [items |-> links_msg], response,
                            send_feed_card(webhook_url, links_msg, response))
        /\ UNCHANGED <<clock, webhook_url, lastInit, signLog, runVars, engVars>>

SendImage ==
    \E image_base64 \in {<<"aGk=">>}, mobiles \in MobilesArgs, is_at_all \in BOOLEAN,
       response \in Responses :
        /\ lastCall = NoCall
        /\ lastCall' = Call("send_image",
                            [body |-> image_base64, mobiles |-> mobiles,
                             is_at_all |-> is_at_all],
                            response,
                            send_image(webhook_url, image_base64, mobiles, is_at_all,
                                       response))
        /\ UNCHANGED <<clock, webhook_url, lastInit, signLog, runVars, engVars>>

\* the caller takes the result; the client is ready for the next call
Return ==
    /\ lastCall # NoCall
    /\ lastCall' = NoCall
    /\ UNCHANGED <<clock, webhook_url, lastInit, signLog, runVars, engVars>>

\* The state after DingTalkBot(secret, webhook_url) at some time
Init ==
    \E secret \in Secrets, url \in BaseUrls, now \in 0..MaxClock :
        /\ clock = now
        /\ webhook_url = InitWebhookUrl(secret, url, now)
        /\ lastInit = [secret |-> secret, webhook_url |-> url,
                       timeReads |-> InitTimeReads(secret, now)]
        /\ signLog = InitSignCalls(secret, now)
        /\ lastCall = NoCall
        /\ NoScript
        /\ NoReport

Next ==
    \/ SendText
    \/ SendLink
    \/ SendMarkdown
    \/ SendActionCardSingle
    \/ SendActionCardSplit
    \/ SendFeedCard
    \/ SendImage
    \/ Return

Spec == Init /\ [][Next]_vars

-----------------------------------------------------------------------------
(* Signing: clients are constructed and get_sign is called as time passes *)

SignInit ==
    \E secret \in Secrets, url \in BaseUrls :
        /\ clock = 0
        /\ webhook_url = InitWebhookUrl(secret, url, 0)
        /\ lastInit = [secret |-> secret, webhook_url |-> url,
                       timeReads |-> InitTimeReads(secret, 0)]
        /\ signLog = InitSignCalls(secret, 0)
        /\ lastCall = NoCall
        /\ NoScript
        /\ NoReport

SignTick == Tick /\ UNCHANGED <<runVars, engVars>>

SignConstruct ==
    \E secret \in Secrets, url \in BaseUrls :
        Construct(secret, url) /\ UNCHANGED <<runVars, engVars>>

SignGetSign ==
    \E secret \in {<<"SEC1">>, <<"SEC2">>}, t \in 0..MaxClock :
        GetSign(secret, Digits(t)) /\ UNCHANGED <<runVars, engVars>>

SignNext ==
    \/ SignTick
    \/ SignConstruct
    \/ SignGetSign

SignSpec == SignInit /\ [][SignNext]_vars

-----------------------------------------------------------------------------
(* Claims about the client *)

IsSend == lastCall.op # "none"
Requested == IsSend /\ lastCall.requests # <<>>
MentionOps == {"send_text", "send_markdown", "send_image"}

\* C1 as stated: every send call that receives a response returns True when
\* the body is JSON with errcode 0 and returns False for every other response,
\* a body that is not valid JSON included.
C1_AlwaysReturnsBool ==
    Requested =>
        lastCall.outcome =
            IF lastCall.response.body = "json_object" /\ PyEqZero(lastCall.response.errcode)
            THEN "True" ELSE "False"

\* C1 amended: a send call that receives a response returns True exactly when
\* the body is a JSON object whose errcode equals 0, returns False exactly when
\* it is a JSON object with another or no errcode, and raises when the body is
\* not JSON or not a JSON object.
C1_ResultContract ==
    Requested =>
        LET r == lastCall.response
            zero == r.errcode \in {"int:0", "float:0.0", "bool:false"}
        IN  /\ lastCall.outcome = "True" <=> (r.body = "json_object" /\ zero)
            /\ lastCall.outcome = "False" <=> (r.body = "json_object" /\ ~zero)
            /\ r.body = "not_json" => lastCall.outcome = "JSONDecodeError"
            /\ r.body = "json_array" => lastCall.outcome = "AttributeError"

C1_Witness ==
    /\ Requested
    /\ lastCall.op = "send_feed_card"
    /\ lastCall.response.body = "not_json"
    /\ lastCall.outcome = "JSONDecodeError"

\* C2: send_text, send_markdown and send_image called with a mobiles value that
\* is neither None nor a list raise and issue no request, falsy values such as
\* "", () and 0 included.
C2_NonListFailsFast ==
    (IsSend /\ lastCall.op \in MentionOps
        /\ lastCall.args.mobiles.type \notin {"NoneType", "list"})
    => (lastCall.outcome = "TypeError" /\ lastCall.requests = <<>>)

RECURSIVE MentionTags(_, _)
\* sep @m1 sep @m2 ...
MentionTags(mobiles, sep) ==
    IF mobiles = <<>> THEN <<>>
    ELSE sep \o <<"@">> \o Head(mobiles) \o MentionTags(Tail(mobiles), sep)

\* the message body field of the posted payload
PostedBody ==
    LET json == lastCall.requests[1].json
    IN  CASE lastCall.op = "send_text" -> json.text.content
          [] lastCall.op = "send_markdown" -> json.markdown.text
          [] lastCall.op = "send_image" -> json.image.base64

Mentioning ==
    /\ IsSend
    /\ lastCall.op \in MentionOps
    /\ lastCall.args.mobiles.type = "list"
    /\ lastCall.args.mobiles.val # <<>>

\* C3 as stated: with a non-empty mobiles list every mention-capable send posts
\* atMobiles = mobiles, isAtAll = false and body = original body @m1 ... @mk,
\* nothing between the tags.
C3_TagsWithoutSeparator ==
    Mentioning =>
        /\ lastCall.requests # <<>>
        /\ lastCall.requests[1].json.at = [atMobiles |-> lastCall.args.mobiles,
                                           isAtAll |-> FALSE]
        /\ PostedBody = lastCall.args.body \o MentionTags(lastCall.args.mobiles.val, <<>>)

\* C3 amended: with a non-empty mobiles list the posted payload has
\* atMobiles = mobiles in order and isAtAll = false; send_text appends @mi for
\* each mi in order with no separator ("A" and ["13800000000"] give
\* "A@13800000000"), send_markdown and send_image append " @mi", a space before
\* each tag.
C3_MentionsAppended ==
    Mentioning =>
        /\ lastCall.requests # <<>>
        /\ lastCall.requests[1].json.at = [atMobiles |-> lastCall.args.mobiles,
                                           isAtAll |-> FALSE]
        /\ PostedBody = lastCall.args.body
                \o MentionTags(lastCall.args.mobiles.val,
                               IF lastCall.op = "send_text" THEN <<>> ELSE <<" ">>)
        /\ (lastCall.op = "send_text" /\ lastCall.args.body = <<"A">>
                /\ lastCall.args.mobiles.val = <<<<"13800000000">>>>)
           => PostedBody = <<"A", "@", "13800000000">>

C3_Witness ==
    /\ Mentioning
    /\ lastCall.op = "send_markdown"
    /\ Len(lastCall.args.mobiles.val) = 2
    /\ lastCall.args.mobiles.val[1] # lastCall.args.mobiles.val[2]
    /\ lastCall.args.is_at_all

\* C4: with a secret given (a non-empty string) __init__ reads the clock once
\* and stores webhook_url & timestamp=T & sign=S, S the signature of that same
\* T; otherwise it stores webhook_url as given. Equal (secret, timestamp)
\* always get the equal signature from get_sign, whatever was called before.
C4_SignedUrl ==
    /\ LET secret == lastInit.secret
           reads == lastInit.timeReads
       IN  IF secret.type = "str" /\ secret.val # <<>>
           THEN /\ Len(reads) = 1
                /\ webhook_url =
                      lastInit.webhook_url \o <<"&timestamp=">> \o Digits(reads[1])
                      \o <<"&sign=">>
                      \o QuotePlus(B64Encode(HmacSha256(secret.val,
                             Digits(reads[1]) \o <<"\n">> \o secret.val)))
           ELSE /\ reads = <<>>
                /\ webhook_url = lastInit.webhook_url
    /\ \A a \in signLog, b \in signLog :
          (a[1] = b[1] /\ a[2] = b[2]) => a[3] = b[3]

C4_Witness ==
    /\ clock = MaxClock
    /\ lastInit.secret = PyStr(<<"SEC2">>)
    /\ lastInit.timeReads = <<MaxClock>>
    /\ Cardinality(signLog) >= 3

-----------------------------------------------------------------------------
(* The script's delivery: two uploads, then text and markdown to each of two *)
(* destinations. An exception nothing catches ends the script.              *)

my_secret_1 == PyStr(<<"SECebdb">>)
my_url_1 == <<"https://oapi.dingtalk.com/robot/send?access_token=75d2">>
my_secret_2 == PyStr(<<"SEC275e">>)
my_url_2 == <<"https://oapi.dingtalk.com/robot/send?access_token=ef52">>
text_title == <<"SND daily report">>
markdown_title == <<"last 7 days">>

ImageLinks == {<<"https://i.imgur.com/a.png">>, <<"https://i.imgur.com/b.png">>}
Contents == {<<"summary-1">>, <<"summary-2">>}

\* the f-string of the markdown message
markdown_text(df_link, trend_link) ==
    <<"**last 7 days:**\n![image](">> \o df_link
    \o <<")\n\n**1d ROI and 7d ROI trend:**\n![image](">> \o trend_link \o <<")">>

\* a variant in which a rejected message ends the script
AfterSend_abort_on_reject(outcome, next) ==
    IF outcome = "True" THEN next ELSE "raised"

\* The script ignores what a send returns; only an exception stops it.
AfterSend(outcome, next) ==
    IF outcome \in {"True", "False"} THEN next ELSE "raised"

\* im.upload_image(path, title=...): a link, or an exception
RunUploadDf ==
    /\ pc = "upload_df"
    /\ \/ \E link \in ImageLinks :
             /\ uploaded_image_df' = link
             /\ pc' = "upload_trend"
       \/ /\ pc' = "raised"
          /\ UNCHANGED uploaded_image_df
    /\ UNCHANGED <<botVars, engVars, content, uploaded_image_trend, posts, sendResults>>

RunUploadTrend ==
    /\ pc = "upload_trend"
    /\ \/ \E link \in ImageLinks :
             /\ uploaded_image_trend' = link
             /\ pc' = "init_1"
       \/ /\ pc' = "raised"
          /\ UNCHANGED uploaded_image_trend
    /\ UNCHANGED <<botVars, engVars, content, uploaded_image_df, posts, sendResults>>

\* dingding = DingTalkBot(secret=my_secret, webhook_url=my_url)
RunConstruct(at, secret, url, next) ==
    /\ pc = at
    /\ Construct(secret, url)
    /\ pc' = next
    /\ UNCHANGED <<engVars, content, uploaded_image_df, uploaded_image_trend, posts, sendResults>>

\* dingding.send_text(title=..., content=content, is_at_all=False)
RunSendText(at, next) ==
    /\ pc = at
    /\ \E response \in Responses :
          LET r == send_text(webhook_url, text_title, content, PyNone, FALSE, response)
          IN  /\ posts' = posts \o r.requests
              /\ sendResults' = Append(sendResults, r.outcome)
              /\ pc' = AfterSend(r.outcome, next)
    /\ UNCHANGED <<botVars, engVars, content, uploaded_image_df, uploaded_image_trend>>

\* dingding.send_markdown(title=..., text=f"...", mobiles=None, is_at_all=False)
RunSendMarkdown(at, next) ==
    /\ pc = at
    /\ \E response \in Responses :
          LET r == send_markdown(webhook_url, markdown_title,
                                 markdown_text(uploaded_image_df, uploaded_image_trend),
                                 PyNone, FALSE, response)
          IN  /\ posts' = posts \o r.requests
              /\ sendResults' = Append(sendResults, r.outcome)
              /\ pc' = AfterSend(r.outcome, next)
    /\ UNCHANGED <<botVars, engVars, content, uploaded_image_df, uploaded_image_trend>>

RunTick ==
    /\ pc \notin {"done", "raised"}
    /\ Tick
    /\ UNCHANGED <<runVars, engVars>>

RunInit ==
    /\ clock = 0
    /\ webhook_url = <<>>
    /\ lastInit = [secret |-> PyNone, webhook_url |-> <<>>, timeReads |-> <<>>]
    /\ signLog = {}
    /\ lastCall = NoCall
    /\ pc = "upload_df"
    /\ content \in Contents
    /\ uploaded_image_df = NoLink
    /\ uploaded_image_trend = NoLink
    /\ posts = <<>>
    /\ sendResults = <<>>
    /\ NoReport

RunNext ==
    \/ RunUploadDf
    \/ RunUploadTrend
    \/ RunConstruct("init_1", my_secret_1, my_url_1, "text_1")
    \/ RunSendText("text_1", "markdown_1")
    \/ RunSendMarkdown("markdown_1", "init_2")
    \/ RunConstruct("init_2", my_secret_2, my_url_2, "text_2")
    \/ RunSendText("text_2", "markdown_2")
    \/ RunSendMarkdown("markdown_2", "done")
    \/ RunTick

\* The script is one sequential process: it takes its next step.
RunSpec == RunInit /\ [][RunNext]_vars /\ WF_vars(RunNext)

-----------------------------------------------------------------------------
(* Claims about the script's delivery *)

IsPrefix(a, b) == Len(a) <= Len(b) /\ SubSeq(b, 1, Len(a)) = a

MessageKinds == <<"text", "markdown", "text", "markdown">>
Destinations == <<my_url_1, my_url_1, my_url_2, my_url_2>>

\* sends completed when the script is at pc, if nothing was raised
SendsBefore(at) ==
    CASE at \in {"upload_df", "upload_trend", "init_1", "text_1"} -> 0
      [] at = "markdown_1" -> 1
      [] at \in {"init_2", "text_2"} -> 2
      [] at = "markdown_2" -> 3
      [] at = "done" -> 4

RunInOrder ==
    /\ Len(posts) <= 4
    /\ Len(posts) = Len(sendResults)
    /\ \A k \in 1..Len(posts) :
          /\ posts[k].method = "POST"
          /\ posts[k].json.msgtype = MessageKinds[k]
          /\ IsPrefix(Destinations[k], posts[k].url)
          /\ MessageKinds[k] = "text" => posts[k].json.text.content = content
          /\ MessageKinds[k] = "markdown" =>
                /\ uploaded_image_df \in ImageLinks
                /\ uploaded_image_trend \in ImageLinks
                /\ posts[k].json.markdown.text =
                      <<"**last 7 days:**\n![image](">> \o uploaded_image_df
                      \o <<")\n\n**1d ROI and 7d ROI trend:**\n![image](">>
                      \o uploaded_image_trend \o <<")">>
    /\ pc # "raised" => Len(posts) = SendsBefore(pc)
    /\ pc = "raised" =>
          \/ uploaded_image_trend = NoLink
          \/ \E k \in 1..Len(sendResults) : sendResults[k] \notin {"True", "False"}

\* C5: a run whose uploads succeed and whose POSTs are all answered with a
\* status, whatever messages are rejected, posts exactly text, markdown to the
\* first destination and then text, markdown to the second, one POST each,
\* the markdown messages embedding the links uploaded before; it ends having
\* attempted all four.
C5_AllMessagesAttempted ==
    /\ []RunInOrder
    /\ <>(pc = "raised" \/ (pc = "done" /\ Len(posts) = 4))

C5_Witness ==
    /\ pc = "done"
    /\ sendResults = <<"False", "False", "True", "False">>
    /\ Len(posts) = 4
    /\ posts[2].url # posts[3].url

-----------------------------------------------------------------------------
(* Dates: days of one year, numbered from 1 for January 1 *)

MonthLengths == <<31, 28, 31, 30, 31, 30, 31, 31, 30, 31, 30, 31>>

RECURSIVE DaysBefore(_)
DaysBefore(month) ==
    IF month = 1 THEN 0 ELSE DaysBefore(month - 1) + MonthLengths[month - 1]

\* the date month-day
Ordinal(month, day) == DaysBefore(month) + day

RECURSIVE MonthFrom(_, _)
MonthFrom(left, month) ==
    IF left <= MonthLengths[month] THEN month
    ELSE MonthFrom(left - MonthLengths[month], month + 1)

\* date.month and date.day
MonthOf(date) == MonthFrom(date, 1)
DayOf(date) == date - DaysBefore(MonthOf(date))

\* pandas reading f"{year}-{month}-{day}" as a date: no date when the day is
\* not a day of that month
ParseDate(month, day) ==
    IF day >= 1 /\ day <= MonthLengths[month]
    THEN [ok |-> TRUE, date |-> Ordinal(month, day)]
    ELSE [ok |-> FALSE, date |-> 0]

\* (today.date() - relativedelta(months=1)).replace(day=1)
first_day_of_last_month(t) == Ordinal(MonthOf(t) - 1, 1)

-----------------------------------------------------------------------------
(* The feed: one row per day from the first day of last month on *)

FirstToday == Ordinal(2, 27)
Todays == FirstToday .. (FirstToday + TodaySpan)

\* how the day's revenue grows from the 1-day to the 3-day and 7-day sums
\* one = 2: no 1-day revenue before LaunchDay
Profiles == [one : {0, 1, 2}, three : {0, 1}, seven : {0, 1}]
LaunchDay == Ordinal(2, 26)

FeedRow(date, p) ==
    LET cost == 10 + (date % 3)
        pay_sum_1 == CASE p.one = 0 -> 0
                       [] p.one = 1 -> 1 + (date % 2)
                       [] OTHER -> IF date < LaunchDay THEN 0 ELSE 1 + (date % 2)
        pay_sum_3 == pay_sum_1 + p.three * (date % 3)
        pay_sum_7 == pay_sum_3 + p.seven * (1 + (date % 2))
    IN  [end_date |-> date, cost |-> cost, install |-> 100 + date,
         pay_sum_1 |-> pay_sum_1, pay_sum_3 |-> pay_sum_3, pay_sum_7 |-> pay_sum_7,
         roi_1 |-> Ratio(pay_sum_1, cost), roi_3 |-> Ratio(pay_sum_3, cost),
         roi_7 |-> Ratio(pay_sum_7, cost)]

\* pd.DataFrame(res): the rows in the order the server sent them, the k-th row
\* (from 1) under index label k - 1
Feed(t, order, hasToday, p) ==
    LET first == first_day_of_last_month(t)
        last == IF hasToday THEN t ELSE t - 1
        n == last - first + 1
    IN  [k \in 1..n |->
            FeedRow(IF order = "newest_first" THEN last - (k - 1) ELSE first + (k - 1), p)]

-----------------------------------------------------------------------------
(* The report computation *)

RECURSIVE SumOf(_, _)
\* rows[field].sum()
SumOf(rows, field) ==
    IF rows = <<>> THEN 0 ELSE Head(rows)[field] + SumOf(Tail(rows), field)

\* data[(end_date <= hi) & (end_date >= lo)]
Between(df, lo, hi) ==
    SelectSeq(df, LAMBDA r : r.end_date <= hi /\ r.end_date >= lo)

\* data[selection][numerator].sum() / data[selection][denominator].sum()
Coefficient(df, lo, hi, numerator, denominator) ==
    Divide(SumOf(Between(df, lo, hi), numerator),
           SumOf(Between(df, lo, hi), denominator))

\* data[data['end_date'].dt.month == today.month]
this_month_data(df, t) ==
    SelectSeq(df, LAMBDA r : MonthOf(r.end_date) = MonthOf(t))

\* a variant whose observation day is today.day - 7
total_7roi_calculator_day_minus_7(df, t) ==
    IF Len(this_month_data(df, t)) < 7
    THEN [raised |-> FALSE, value |-> Zero]
    ELSE LET roi_observation_day == ParseDate(MonthOf(t), DayOf(t) - 7)
             roi_data == SelectSeq(this_month_data(df, t),
                                   LAMBDA r : r.end_date <= roi_observation_day.date)
         IN  IF roi_observation_day.ok
             THEN [raised |-> FALSE,
                   value |-> Round4(Divide(SumOf(roi_data, "pay_sum_7"),
                                           SumOf(roi_data, "cost")))]
             ELSE [raised |-> TRUE, value |-> Unset]

total_7roi_calculator(df, t) ==
    IF Len(this_month_data(df, t)) < 7
    THEN [raised |-> FALSE, value |-> Zero]
    ELSE LET roi_observation_day == ParseDate(MonthOf(t), DayOf(t) - 6)
             roi_data == SelectSeq(this_month_data(df, t),
                                   LAMBDA r : r.end_date <= roi_observation_day.date)
         IN  IF roi_observation_day.ok
             THEN [raised |-> FALSE,
                   value |-> Round4(Divide(SumOf(roi_data, "pay_sum_7"),
                                           SumOf(roi_data, "cost")))]
             ELSE [raised |-> TRUE, value |-> Unset]

\* the dates lines 337-340 and 341-344 select, for today = t
ThreeOneWindow(t) == [lo |-> t - 17, hi |-> t - 3]
SevenThreeWindow(t) == [lo |-> t - 21, hi |-> t - 7]

\* three_one_coefficient and seven_three_coefficient, for today = t
GlobalThreeOne(df, t) ==
    Coefficient(df, ThreeOneWindow(t).lo, ThreeOneWindow(t).hi, "pay_sum_3", "pay_sum_1")
GlobalSevenThree(df, t) ==
    Coefficient(df, SevenThreeWindow(t).lo, SevenThreeWindow(t).hi, "pay_sum_7", "pay_sum_3")

\* lines 337-344
ComputeCoefficients ==
    /\ step = "coefficients"
    /\ three_one_coefficient' = GlobalThreeOne(data, today)
    /\ seven_three_coefficient' = GlobalSevenThree(data, today)
    /\ step' = "totals"
    /\ UNCHANGED <<today, data, total_cost, total_install, total_1roi, total_7roi,
                   predicted_7roi, i, index_three_one_coefficient,
                   index_seven_three_coefficient, my_table, botVars, runVars>>

\* lines 346-359
ComputeTotals ==
    /\ step = "totals"
    /\ LET month == this_month_data(data, today)
           seven == total_7roi_calculator(data, today)
           one == Divide(SumOf(month, "pay_sum_1"), SumOf(month, "cost"))
       IN  /\ total_cost' = SumOf(month, "cost")
           /\ total_install' = SumOf(month, "install")
           /\ total_1roi' = one
           /\ total_7roi' = seven.value
           /\ IF seven.raised
              THEN /\ step' = "InvalidDate"
                   /\ UNCHANGED predicted_7roi
              ELSE /\ step' = "table"
                   /\ predicted_7roi' =
                         Multiply(Multiply(one, three_one_coefficient),
                                  seven_three_coefficient)
    /\ UNCHANGED <<today, data, three_one_coefficient, seven_three_coefficient,
                   i, index_three_one_coefficient, index_seven_three_coefficient,
                   my_table, botVars, runVars>>

\* series[label] on data[data['end_date'] == date][column]: the row under that
\* index label, if its date is the one selected; KeyError otherwise
HasLabel(df, date, label) ==
    (label + 1) \in DOMAIN df /\ df[label + 1].end_date = date

\* a variant that takes yesterday's 3-day sum for mature
Roi3Mature_yesterday(index_date, t) == index_date <= t - 1

\* index_date <= today.date() - dt.timedelta(days=2)
Roi3Mature(index_date, t) == index_date <= t - 2

\* index_date <= today.date() - dt.timedelta(days=6)
Roi7Mature(index_date, t) == index_date <= t - 6

\* a variant that keeps the report's offsets, 17 and 3, counted from the row's date
IndexThreeOneWindow_report_offsets(t, k) ==
    [lo |-> t - ((7 - k) + 17), hi |-> t - ((7 - k) + 3)]

\* the dates lines 383-386 and 387-390 select in pass k of the loop
IndexThreeOneWindow(t, k) == [lo |-> t - ((7 - k) + 16), hi |-> t - ((7 - k) + 2)]
IndexSevenThreeWindow(t, k) == [lo |-> t - ((7 - k) + 20), hi |-> t - ((7 - k) + 6)]

\* index_three_one_coefficient and index_seven_three_coefficient of pass k
IndexThreeOne(df, t, k) ==
    Coefficient(df, IndexThreeOneWindow(t, k).lo, IndexThreeOneWindow(t, k).hi,
                "pay_sum_3", "pay_sum_1")
IndexSevenThree(df, t, k) ==
    Coefficient(df, IndexSevenThreeWindow(t, k).lo, IndexSevenThreeWindow(t, k).hi,
                "pay_sum_7", "pay_sum_3")

\* lines 373-401: one pass of the loop body
one_row(df, t, k) ==
    LET index_date == t - (7 - k)
        index_day == ParseDate(MonthOf(index_date), DayOf(index_date)).date
        row == df[(7 - k) + 1]
        index_day_1roi == row.roi_1
        index_predicted_3roi ==
            IF Roi3Mature(index_day, t) THEN row.roi_3
            ELSE Multiply(index_day_1roi, IndexThreeOne(df, t, k))
        index_predicted_7roi ==
            IF Roi7Mature(index_day, t) THEN row.roi_7
            ELSE Multiply(Multiply(index_day_1roi, IndexThreeOne(df, t, k)),
                          IndexSevenThree(df, t, k))
    IN  <<<<MonthOf(index_date), DayOf(index_date)>>,
          FormatComma(row.cost),
          FormatComma(row.install),
          FormatPercent(index_day_1roi),
          FormatPercent(index_predicted_3roi),
          FormatPercent(index_predicted_7roi)>>

\* for i in range(7): ...
ComputeTableRow ==
    /\ step = "table"
    /\ LET index_date == today - (7 - i)
           index_day == ParseDate(MonthOf(index_date), DayOf(index_date)).date
       IN  IF HasLabel(data, index_day, 7 - i)
           THEN /\ index_three_one_coefficient' = IndexThreeOne(data, today, i)
                /\ index_seven_three_coefficient' = IndexSevenThree(data, today, i)
                /\ my_table' = Append(my_table, one_row(data, today, i))
                /\ i' = i + 1
                /\ step' = IF i + 1 < 7 THEN "table" ELSE "finished"
           ELSE /\ step' = "KeyError"
                /\ UNCHANGED <<i, index_three_one_coefficient,
                               index_seven_three_coefficient, my_table>>
    /\ UNCHANGED <<today, data, three_one_coefficient, seven_three_coefficient,
                   total_cost, total_install, total_1roi, total_7roi, predicted_7roi,
                   botVars, runVars>>

ReportInit ==
    /\ clock = 0
    /\ webhook_url = <<>>
    /\ lastInit = [secret |-> PyNone, webhook_url |-> <<>>, timeReads |-> <<>>]
    /\ signLog = {}
    /\ lastCall = NoCall
    /\ NoScript
    /\ today \in Todays
    /\ \E order \in {"newest_first", "oldest_first"}, hasToday \in BOOLEAN, p \in Profiles :
          data = Feed(today, order, hasToday, p)
    /\ step = "coefficients"
    /\ three_one_coefficient = Unset
    /\ seven_three_coefficient = Unset
    /\ total_cost = 0
    /\ total_install = 0
    /\ total_1roi = Unset
    /\ total_7roi = Unset
    /\ predicted_7roi = Unset
    /\ i = 0
    /\ index_three_one_coefficient = Unset
    /\ index_seven_three_coefficient = Unset
    /\ my_table = <<>>

ReportNext ==
    \/ ComputeCoefficients
    \/ ComputeTotals
    \/ ComputeTableRow

ReportSpec == ReportInit /\ [][ReportNext]_vars

-----------------------------------------------------------------------------
(* Claims about the report computation *)

\* the feed's rows dated d
RowsDated(d) == {k \in DOMAIN data : data[k].end_date = d}
RowDated(d) == data[CHOOSE k \in DOMAIN data : data[k].end_date = d]

RECURSIVE SumDated(_, _, _)
\* the sum of a field over the feed's rows dated lo .. hi
SumDated(lo, hi, field) ==
    IF lo > hi THEN 0
    ELSE (IF RowsDated(lo) = {} THEN 0 ELSE RowDated(lo)[field]) + SumDated(lo + 1, hi, field)

\* the engine's precondition: one row for each date of the windows and the table
FeedPrecondition == \A d \in (today - 27)..(today - 1) : Cardinality(RowsDated(d)) = 1

TableStarted == step \in {"table", "finished", "KeyError"}

\* C6: for every feed with one row per date of the windows the weekly table is
\* completed, with exactly 7 rows dated as_of-7 .. as_of-1 in ascending order,
\* each row's cost, install and roi_1 taken from the feed row of its date.
C6_TableCompletes ==
    FeedPrecondition =>
        /\ step # "KeyError"
        /\ step = "finished" =>
              /\ Len(my_table) = 7
              /\ \A k \in 1..7 :
                    LET d == today - (8 - k)
                    IN  /\ my_table[k][1] = <<MonthOf(d), DayOf(d)>>
                        /\ my_table[k][2] = FormatComma(RowDated(d).cost)
                        /\ my_table[k][3] = FormatComma(RowDated(d).install)
                        /\ my_table[k][4] = FormatPercent(RowDated(d).roi_1)

\* the month-to-date rows dated lo .. hi
RECURSIVE SumMonthDated(_, _, _)
SumMonthDated(lo, hi, field) ==
    IF lo > hi THEN 0
    ELSE (IF RowsDated(lo) = {} \/ MonthOf(lo) # MonthOf(today) THEN 0
          ELSE RowDated(lo)[field])
         + SumMonthDated(lo + 1, hi, field)

MonthToDateCount ==
    Cardinality({k \in DOMAIN data : MonthOf(data[k].end_date) = MonthOf(today)})

\* C7: total_7roi is exactly 0 when fewer than 7 month-to-date rows exist;
\* otherwise it is sum(pay_sum_7) / sum(cost), rounded to 4 decimals, over the
\* month-to-date rows dated on or before as_of - 6 days, and computing it
\* never fails.
C7_Total7Roi ==
    /\ step # "InvalidDate"
    /\ TableStarted =>
          total_7roi =
              IF MonthToDateCount < 7 THEN Ratio(0, 1)
              ELSE LET pay == SumMonthDated(1, today - 6, "pay_sum_7")
                       cost == SumMonthDated(1, today - 6, "cost")
                   IN  IF cost = 0 THEN NaN
                       ELSE Ratio(RoundHalfEven(pay * 10000, cost), 10000)

C7_Witness ==
    /\ TableStarted
    /\ MonthToDateCount >= 7
    /\ DayOf(today) = 7
    /\ total_7roi.kind = "num"
    /\ total_7roi.num > 0

\* the ratio of two sums over the rows dated lo .. hi
RatioDated(lo, hi, numerator, denominator) ==
    Divide(SumDated(lo, hi, numerator), SumDated(lo, hi, denominator))

\* C8: in every table row, of date d: the roi_1 cell is the row's observed
\* roi_1; the roi_3 cell is the observed roi_3 if d <= as_of - 2 and otherwise
\* roi_1 * ratio_3_over_1 over [d-16, d-2]; the roi_7 cell is the observed
\* roi_7 if d <= as_of - 6 and otherwise roi_1 * ratio_3_over_1 *
\* ratio_7_over_3, the latter over [d-20, d-6].
C8_MaturityPerRow ==
    \A k \in 1..Len(my_table) :
        LET d == today - (8 - k)
            row == RowDated(d)
            ratio_3_over_1 == RatioDated(d - 16, d - 2, "pay_sum_3", "pay_sum_1")
            ratio_7_over_3 == RatioDated(d - 20, d - 6, "pay_sum_7", "pay_sum_3")
        IN  /\ my_table[k][4] = FormatPercent(row.roi_1)
            /\ my_table[k][5] =
                  IF d <= today - 2 THEN FormatPercent(row.roi_3)
                  ELSE FormatPercent(Multiply(row.roi_1, ratio_3_over_1))
            /\ my_table[k][6] =
                  IF d <= today - 6 THEN FormatPercent(row.roi_7)
                  ELSE FormatPercent(Multiply(Multiply(row.roi_1, ratio_3_over_1),
                                              ratio_7_over_3))

C8_Witness ==
    /\ step = "finished"
    /\ Len(my_table) = 7
    /\ my_table[7][5] # FormatPercent(RowDated(today - 1).roi_3)
    /\ my_table[6][5] = FormatPercent(RowDated(today - 2).roi_3)
    /\ my_table[3][6] # FormatPercent(RowDated(today - 5).roi_7)
    /\ my_table[2][6] = FormatPercent(RowDated(today - 6).roi_7)
    /\ my_table[7][6].text = "%"

\* C9: a coefficient whose window has no rows or a zero denominator sum is the
\* undetermined sentinel (nan), and so are predicted_7roi and the projected
\* table cells computed from it.
C9_ZeroDenominatorSentinel ==
    /\ TableStarted =>
          /\ SumDated(today - 17, today - 3, "pay_sum_1") = 0 =>
                (three_one_coefficient = NaN /\ predicted_7roi = NaN)
          /\ SumDated(today - 21, today - 7, "pay_sum_3") = 0 =>
                (seven_three_coefficient = NaN /\ predicted_7roi = NaN)
    /\ \A k \in 1..Len(my_table) :
          LET d == today - (8 - k)
          IN  /\ (d > today - 2 /\ SumDated(d - 16, d - 2, "pay_sum_1") = 0)
                    => my_table[k][5] = FormatPercent(NaN)
              /\ (d > today - 6
                    /\ (SumDated(d - 16, d - 2, "pay_sum_1") = 0
                          \/ SumDated(d - 20, d - 6, "pay_sum_3") = 0))
                    => my_table[k][6] = FormatPercent(NaN)

DatesOf(rows) == {rows[n].end_date : n \in DOMAIN rows}

\* C11: after the pass for the row dated d = as_of - (7 - i), the row-local
\* ratio_3_over_1 is sum(pay_sum_3) / sum(pay_sum_1) over exactly the rows dated
\* d-16 .. d-2 and the row-local ratio_7_over_3 is sum(pay_sum_7) /
\* sum(pay_sum_3) over exactly the rows dated d-20 .. d-6; these are the
\* windows, and the values, of the report's own coefficients for an as-of date
\* of d+1, and each window spans 15 days.
C11_RowLocalWindows ==
    i >= 1 =>
        LET k == i - 1
            d == today - (7 - k)
            w31 == IndexThreeOneWindow(today, k)
            w73 == IndexSevenThreeWindow(today, k)
        IN  /\ w31 = [lo |-> d - 16, hi |-> d - 2]
            /\ w73 = [lo |-> d - 20, hi |-> d - 6]
            /\ index_three_one_coefficient =
                  RatioDated(d - 16, d - 2, "pay_sum_3", "pay_sum_1")
            /\ index_seven_three_coefficient =
                  RatioDated(d - 20, d - 6, "pay_sum_7", "pay_sum_3")
            /\ w31 = ThreeOneWindow(d + 1)
            /\ w73 = SevenThreeWindow(d + 1)
            /\ index_three_one_coefficient = GlobalThreeOne(data, d + 1)
            /\ index_seven_three_coefficient = GlobalSevenThree(data, d + 1)
            /\ FeedPrecondition =>
                  /\ DatesOf(Between(data, w31.lo, w31.hi)) = (d - 16)..(d - 2)
                  /\ DatesOf(Between(data, w73.lo, w73.hi)) = (d - 20)..(d - 6)
                  /\ Len(Between(data, w31.lo, w31.hi)) = 15
                  /\ Len(Between(data, w73.lo, w73.hi)) = 15

C11_Witness ==
    /\ FeedPrecondition
    /\ step = "table"
    /\ i = 3
    /\ index_three_one_coefficient.kind = "num"
    /\ index_seven_three_coefficient.kind = "num"
    /\ three_one_coefficient.kind = "num"
    /\ index_three_one_coefficient # three_one_coefficient
    /\ index_seven_three_coefficient # seven_three_coefficient

====
